---- MODULE Spec2Model ----
(***************************************************************************)
(* Glautomata: Conway's Game of Life kept inside a vertex buffer.          *)
(* Model of the Game of Life functions of src/src/glautomata.cpp           *)
(* (CreateCell, GetCellState, SetCellState, GenerateRandomCells,           *)
(* GameOfLife, RestartGame) and of the loop of main that drives them.      *)
(*                                                                         *)
(* The buffer is a sequence of vertices, four per cell, in the order the   *)
(* x-outer / y-inner loops insert them.  C++ index i is element i + 1 of   *)
(* the sequence.  Vertex positions are kept in units of cellSize.          *)
(***************************************************************************)
EXTENDS Integers, Sequences, FiniteSets, TLC

VARIABLES
    gridSize,          \* constexpr int gridSize of the build
    buffer,            \* std::vector<Vertex> cellVertices / buffer
    tempBuffer,        \* GameOfLife: local tempBuffer
    cellPosX,          \* GameOfLife: outer loop variable
    cellPosY,          \* GameOfLife: inner loop variable
    nAliveNeighbours,  \* GameOfLife: local count of the cell being decided
    pc,                \* position inside GameOfLife: idle, count, decide, swap
    call,              \* last direct call of GetCellState / SetCellState
    oldBuffer,         \* history: the buffer when the last GameOfLife call started
    initialAlive,      \* history (Spec): coordinates ALIVE in the grid GameOfLife starts from
    steps,             \* history: number of completed GameOfLife calls
    mainPc,            \* position inside main: generate, render, life, input
    clock,             \* the second std::time(nullptr) returns
    randState,         \* state of the generator behind std::srand / rand
    srandCalls,        \* number of std::srand calls so far
    generated,         \* history: one record per GenerateRandomCells call
    rendered,          \* history: the grids passed to Render, oldest first
    order              \* SpecOrder: the order in which the cells are visited

progVars == <<clock, randState, srandCalls, generated, rendered, order>>

lifeVars == <<tempBuffer, cellPosX, cellPosY, nAliveNeighbours, pc, oldBuffer, steps>>
vars == <<gridSize, buffer, tempBuffer, cellPosX, cellPosY, nAliveNeighbours,
          pc, call, oldBuffer, initialAlive, steps,
          mainPc, clock, randState, srandCalls, generated, rendered, order>>

----------------------------------------------------------------------------
(* Bounds of the model *)

MaxAccessGridSize == 2   \* largest gridSize of the accessor specification
SmallGridSize == 3       \* largest gridSize started from sparse and dense grids
MaxGridSize == 6         \* largest gridSize started from patterns
MaxAlive == 2            \* sparse grids: at most this many ALIVE (or DEAD) cells
MaxSteps == 4            \* GameOfLife calls per behaviour
MaxClock == 2            \* last second the clock reaches

----------------------------------------------------------------------------
(* Helper structs & enums *)

DEAD == 0
ALIVE == 1

colourBlack == <<0, 0, 0>>
colourWhite == <<1, 1, 1>>

nVertices == 4

\* float -> uint32_t conversion of the index expression.  The values of the
\* model are far below 2^32, so a non-negative value converts to itself.  A
\* negative value is out of range for the conversion (undefined behaviour):
\* builds either reduce it modulo 2^32 or saturate it to 0.  The reduced
\* value 2^32 + v is at least 2^31 for the small v of the model; it is
\* represented by 2^31 - 1, which compares with every buffer size alike.
ToUint32(v, conv) ==
    IF v >= 0 THEN v
    ELSE IF conv = "wrap" THEN 2147483647 ELSE 0

Conversions == {"wrap", "saturate"}

----------------------------------------------------------------------------
(* Game of Life Functions *)

CreateCell(position, state) ==
    LET cellColour == IF state # DEAD THEN colourWhite ELSE colourBlack
        x == position[1]
        y == position[2]
    IN  << [position |-> <<x, y>>,         colour |-> cellColour],
           [position |-> <<x + 1, y>>,     colour |-> cellColour],
           [position |-> <<x + 1, y + 1>>, colour |-> cellColour],
           [position |-> <<x, y + 1>>,     colour |-> cellColour] >>

\* Variant of GetCellState whose local state starts as State::ALIVE.
GetCellStateDefaultAlive(buf, position) ==
    IF position[1] >= 0 /\ position[2] >= 0
    THEN LET index == ToUint32(((position[1] * gridSize) + position[2]) * nVertices, "wrap")
         IN  IF index < Len(buf)
             THEN IF buf[index + 1].colour = colourWhite THEN ALIVE ELSE DEAD
             ELSE ALIVE
    ELSE ALIVE

GetCellState(buf, position) ==
    IF position[1] >= 0 /\ position[2] >= 0
    THEN LET index == ToUint32(((position[1] * gridSize) + position[2]) * nVertices, "wrap")
         IN  IF index < Len(buf)
             THEN IF buf[index + 1].colour = colourWhite THEN ALIVE ELSE DEAD
             ELSE DEAD
    ELSE DEAD

SetCellState(buf, position, state, conv) ==
    LET index == ToUint32(((position[1] * gridSize) + position[2]) * nVertices, conv)
    IN  IF index < Len(buf)
        THEN [i \in 1..Len(buf) |->
                IF (i - 1) \in index..(index + 3)
                THEN [buf[i] EXCEPT !.colour =
                          IF state # DEAD THEN colourWhite ELSE colourBlack]
                ELSE buf[i]]
        ELSE buf

Coords(gs) == (0..(gs - 1)) \X (0..(gs - 1))

\* Variant of FillCells whose loops run y outside and x inside.
FillCellsYOuter(gs, alive) ==
    [i \in 1..(gs * gs * nVertices) |->
        LET k == (i - 1) \div nVertices
            x == k % gs
            y == k \div gs
        IN  CreateCell(<<x, y>>, IF <<x, y>> \in alive THEN ALIVE ELSE DEAD)
                [((i - 1) % nVertices) + 1]]

\* The two loops of GenerateRandomCells, for a given outcome of the draws:
\* the cell of (x, y) is ALIVE iff <<x, y>> is in alive.
FillCells(gs, alive) ==
    [i \in 1..(gs * gs * nVertices) |->
        LET k == (i - 1) \div nVertices
            x == k \div gs
            y == k % gs
        IN  CreateCell(<<x, y>>, IF <<x, y>> \in alive THEN ALIVE ELSE DEAD)
                [((i - 1) % nVertices) + 1]]

\* std::srand / rand of the C library: a deterministic generator.  srand(t)
\* makes t the state, rand() steps the state and returns it.  The library's
\* generator is represented by a small linear congruential one.
RandNext(state) == ((state * 75) + 74) % 65537

\* The state after n calls of rand() from the state.
RECURSIVE RandAfter(_, _)
RandAfter(state, n) ==
    IF n = 0 THEN state ELSE RandAfter(RandNext(state), n - 1)

\* The cells the loops of GenerateRandomCells make ALIVE when the generator
\* starts in state: (x, y) takes draw number x * gs + y + 1, ALIVE iff
\* rand() % 2 is not 0.
DrawnAlive(gs, state) ==
    {c \in Coords(gs) : RandAfter(state, (c[1] * gs) + c[2] + 1) % 2 # 0}

\* Variant of GenerateRandomCells without the std::srand call: the draws
\* continue from the current state rs of the generator.
GenerateRandomCellsNoSrand(buf, t, rs) ==
    [buffer |-> buf \o FillCells(gridSize, DrawnAlive(gridSize, rs)),
     randState |-> RandAfter(rs, gridSize * gridSize)]

\* GenerateRandomCells at second t, the generator being in state rs: the
\* buffer after the call and the state of the generator after it.
GenerateRandomCells(buf, t, rs) ==
    [buffer |-> buf \o FillCells(gridSize, DrawnAlive(gridSize, t)),
     randState |-> RandAfter(t, gridSize * gridSize)]

\* Variant of RestartGame without the erase.
RestartGameNoErase(buf, t, rs) ==
    GenerateRandomCells(buf, t, rs)

\* RestartGame: erase the whole buffer, then GenerateRandomCells.
RestartGame(buf, t, rs) ==
    GenerateRandomCells(<<>>, t, rs)

\* Variant of the neighbour loops without the test that skips {0, 0}.
NeighbourOffsetsWithSelf ==
    {-1, 0, 1} \X {-1, 0, 1}

\* GameOfLife, the two neighbour loops for the cell (x, y).
NeighbourOffsets ==
    {d \in {-1, 0, 1} \X {-1, 0, 1} : d[1] # 0 \/ d[2] # 0}

CountAliveNeighbours(buf, x, y) ==
    Cardinality({d \in NeighbourOffsets :
                    GetCellState(buf, <<x + d[1], y + d[2]>>) = ALIVE})

\* Variant of the switch whose overpopulation test reads 4 < n.
NewCellStateSurvivesFour(currentCellState, n) ==
    IF currentCellState = ALIVE
    THEN IF n < 2 \/ 4 < n THEN DEAD
         ELSE IF n = 2 \/ n = 3 THEN ALIVE
         ELSE currentCellState
    ELSE IF n = 3 THEN ALIVE ELSE currentCellState

\* GameOfLife, the switch on currentCellState.
NewCellState(currentCellState, n) ==
    IF currentCellState = ALIVE
    THEN IF n < 2 \/ 3 < n THEN DEAD
         ELSE IF n = 2 \/ n = 3 THEN ALIVE
         ELSE currentCellState
    ELSE IF n = 3 THEN ALIVE ELSE currentCellState

\* GameOfLife, the body of the outer loops for the cell (x, y): the state
\* the call decides for (x, y) when it reads the grid buf.
NextCellState(buf, x, y) ==
    NewCellState(GetCellState(buf, <<x, y>>), CountAliveNeighbours(buf, x, y))

----------------------------------------------------------------------------
(* Grids *)

\* Colour-decoded state of the in-bounds cell (x, y), read at its own index.
CellAt(buf, x, y) ==
    IF buf[((x * gridSize) + y) * nVertices + 1].colour = colourWhite
    THEN ALIVE ELSE DEAD

AliveCells(buf) ==
    {c \in Coords(gridSize) : CellAt(buf, c[1], c[2]) = ALIVE}

----------------------------------------------------------------------------
(* Starting grids *)

\* Every grid, for the grid sizes up to 3x3.
AllGrids(gs) ==
    IF gs <= 3 THEN SUBSET Coords(gs) ELSE {}

\* Grids with few ALIVE cells, and their complements.
SparseGrids(gs) ==
    {a \in SUBSET Coords(gs) : Cardinality(a) <= MaxAlive}

DenseGrids(gs) ==
    {Coords(gs) \ a : a \in SparseGrids(gs)}

\* 2x2 blocks that touch no edge of the grid.
Block(x, y) == {<<x, y>>, <<x + 1, y>>, <<x, y + 1>>, <<x + 1, y + 1>>}

InteriorBlocks(gs) ==
    {Block(x, y) : x \in 1..(gs - 3), y \in 1..(gs - 3)}

\* 3-cell lines through the centre (cx, cy); x is the horizontal axis.
HorizontalLine(cx, cy) == {<<cx - 1, cy>>, <<cx, cy>>, <<cx + 1, cy>>}
VerticalLine(cx, cy) == {<<cx, cy - 1>>, <<cx, cy>>, <<cx, cy + 1>>}

\* Horizontal blinkers whose 3x3 bounding box lies inside the grid.
Blinkers(gs) ==
    {HorizontalLine(cx, cy) : cx \in 1..(gs - 2), cy \in 1..(gs - 2)}

\* The two shapes of the 5-cell glider inside its 3x3 box, heading (+1, +1).
GliderShapes ==
    { {<<1, 0>>, <<2, 1>>, <<0, 2>>, <<1, 2>>, <<2, 2>>},
      {<<0, 0>>, <<2, 0>>, <<1, 1>>, <<2, 1>>, <<1, 2>>} }

\* The 8 orientations of the box: optional transposition, then mirrors.
Orientations == [swap : BOOLEAN, flipX : BOOLEAN, flipY : BOOLEAN]

Orient(o, p) ==
    LET q == IF o.swap THEN <<p[2], p[1]>> ELSE p
    IN  << IF o.flipX THEN 2 - q[1] ELSE q[1],
           IF o.flipY THEN 2 - q[2] ELSE q[2] >>

Heading(o) ==
    << IF o.flipX THEN -1 ELSE 1, IF o.flipY THEN -1 ELSE 1 >>

Translate(cells, d) == {<<c[1] + d[1], c[2] + d[2]>> : c \in cells}

Glider(shape, o, ox, oy) ==
    Translate({Orient(o, p) : p \in shape}, <<ox, oy>>)

\* Gliders whose 3x3 box touches no edge of the grid.
InteriorGliders(gs) ==
    {Glider(sh, o, ox, oy) :
        sh \in GliderShapes, o \in Orientations,
        ox \in 1..(gs - 4), oy \in 1..(gs - 4)}

StartGrids(gs) ==
    AllGrids(gs)
    \cup (IF gs <= SmallGridSize THEN SparseGrids(gs) \cup DenseGrids(gs) ELSE {})
    \cup {Coords(gs), {}}
    \cup InteriorBlocks(gs) \cup Blinkers(gs) \cup InteriorGliders(gs)

NoCall == [op |-> "none", position |-> <<0, 0>>, state |-> DEAD, ret |-> DEAD]

Start(gs, alive, history) ==
    /\ gridSize = gs
    /\ buffer = FillCells(gs, alive)
    /\ tempBuffer = <<>>
    /\ cellPosX = 0
    /\ cellPosY = 0
    /\ nAliveNeighbours = 0
    /\ pc = "idle"
    /\ call = NoCall
    /\ oldBuffer = <<>>
    /\ initialAlive = history
    /\ steps = 0
    /\ mainPc = "none"
    /\ clock = 0
    /\ randState = 1
    /\ srandCalls = 0
    /\ generated = <<>>
    /\ rendered = <<>>

Init ==
    /\ \E gs \in 1..MaxGridSize : \E alive \in StartGrids(gs) : Start(gs, alive, alive)
    /\ order = <<>>

InitAccess ==
    /\ \E gs \in 1..MaxAccessGridSize : \E alive \in SUBSET Coords(gs) : Start(gs, alive, {})
    /\ order = <<>>

\* Orders in which the gridSize * gridSize cells can be visited.
Raster(gs) ==
    [k \in 1..(gs * gs) |-> <<(k - 1) \div gs, (k - 1) % gs>>]

ColumnMajor(gs) ==
    [k \in 1..(gs * gs) |-> <<(k - 1) % gs, (k - 1) \div gs>>]

Reversed(seq) ==
    [k \in 1..Len(seq) |-> seq[Len(seq) + 1 - k]]

\* The odd places of seq, then the even ones.
Interleaved(seq) ==
    LET odd == (Len(seq) + 1) \div 2
    IN  [k \in 1..Len(seq) |->
            IF k <= odd THEN seq[(2 * k) - 1] ELSE seq[2 * (k - odd)]]

\* Every permutation of the cells, for the grid sizes up to 2x2.
AllOrders(gs) ==
    IF gs <= 2
    THEN {p \in [1..(gs * gs) -> Coords(gs)] :
             \A i, j \in 1..(gs * gs) : p[i] = p[j] => i = j}
    ELSE {}

Orders(gs) ==
    AllOrders(gs)
    \cup {Raster(gs), Reversed(Raster(gs)), ColumnMajor(gs),
          Reversed(ColumnMajor(gs)), Interleaved(Raster(gs))}

InitOrder ==
    \E gs \in 1..SmallGridSize : \E alive \in StartGrids(gs) :
        /\ Start(gs, alive, alive)
        /\ order \in Orders(gs)

----------------------------------------------------------------------------
(* GameOfLife, one action per position of the call *)

\* Entry: the empty tempBuffer and the start of the outer loops.
GameOfLifeBegin ==
    /\ pc = "idle"
    /\ steps < MaxSteps
    /\ tempBuffer' = <<>>
    /\ cellPosX' = 0
    /\ cellPosY' = 0
    /\ nAliveNeighbours' = 0
    /\ oldBuffer' = buffer
    /\ pc' = IF 0 < gridSize THEN "count" ELSE "swap"
    /\ UNCHANGED <<gridSize, buffer, call, initialAlive, steps>>
    /\ UNCHANGED progVars

\* The neighbour loops for the cell (cellPosX, cellPosY).
GameOfLifeCount ==
    /\ pc = "count"
    /\ nAliveNeighbours' = CountAliveNeighbours(buffer, cellPosX, cellPosY)
    /\ pc' = "decide"
    /\ UNCHANGED <<gridSize, buffer, tempBuffer, cellPosX, cellPosY, call,
                   oldBuffer, initialAlive, steps>>
    /\ UNCHANGED progVars

\* Variant of the step below that also writes the new state into the buffer
\* being read (an in-place update).
GameOfLifeDecideInPlace ==
    /\ pc = "decide"
    /\ LET currentCellState == GetCellState(buffer, <<cellPosX, cellPosY>>)
           newCellState == NewCellState(currentCellState, nAliveNeighbours)
           tempCell == CreateCell(<<cellPosX, cellPosY>>, newCellState)
       IN  /\ tempBuffer' = tempBuffer \o tempCell
           /\ buffer' = SetCellState(buffer, <<cellPosX, cellPosY>>, newCellState, "wrap")
    /\ IF cellPosY + 1 < gridSize
       THEN /\ cellPosY' = cellPosY + 1
            /\ cellPosX' = cellPosX
            /\ pc' = "count"
       ELSE /\ cellPosY' = 0
            /\ cellPosX' = cellPosX + 1
            /\ pc' = IF cellPosX + 1 < gridSize THEN "count" ELSE "swap"
    /\ UNCHANGED <<gridSize, nAliveNeighbours, call, oldBuffer,
                   initialAlive, steps>>
    /\ UNCHANGED progVars

\* The rule, the insertion into tempBuffer and the loop increments.
GameOfLifeDecide ==
    /\ pc = "decide"
    /\ LET currentCellState == GetCellState(buffer, <<cellPosX, cellPosY>>)
           newCellState == NewCellState(currentCellState, nAliveNeighbours)
           tempCell == CreateCell(<<cellPosX, cellPosY>>, newCellState)
       IN  tempBuffer' = tempBuffer \o tempCell
    /\ IF cellPosY + 1 < gridSize
       THEN /\ cellPosY' = cellPosY + 1
            /\ cellPosX' = cellPosX
            /\ pc' = "count"
       ELSE /\ cellPosY' = 0
            /\ cellPosX' = cellPosX + 1
            /\ pc' = IF cellPosX + 1 < gridSize THEN "count" ELSE "swap"
    /\ UNCHANGED <<gridSize, buffer, nAliveNeighbours, call, oldBuffer,
                   initialAlive, steps>>
    /\ UNCHANGED progVars

\* buffer = std::move(tempBuffer), and the return.
GameOfLifeSwap ==
    /\ pc = "swap"
    /\ buffer' = tempBuffer
    /\ tempBuffer' = <<>>
    /\ pc' = "idle"
    /\ steps' = steps + 1
    /\ UNCHANGED <<gridSize, cellPosX, cellPosY, nAliveNeighbours, call,
                   oldBuffer, initialAlive>>
    /\ UNCHANGED progVars

\* The whole call as a function of the buffer it reads: the loops from the
\* k-th cell on, in the order of the code, appending to temp.
RECURSIVE GameOfLifeFrom(_, _, _)
GameOfLifeFrom(buf, k, temp) ==
    IF k >= gridSize * gridSize THEN temp
    ELSE LET x == k \div gridSize
             y == k % gridSize
         IN  GameOfLifeFrom(buf, k + 1,
                 temp \o CreateCell(<<x, y>>, NextCellState(buf, x, y)))

GameOfLifeResult(buf) == GameOfLifeFrom(buf, 0, <<>>)

----------------------------------------------------------------------------
(* GameOfLife with the cells visited in the order `order` *)

OrderBegin ==
    /\ pc = "idle"
    /\ steps = 0
    /\ oldBuffer = <<>>
    /\ tempBuffer' = <<>>
    /\ cellPosX' = order[1][1]
    /\ cellPosY' = order[1][2]
    /\ nAliveNeighbours' = 0
    /\ oldBuffer' = buffer
    /\ pc' = "count"
    /\ UNCHANGED <<gridSize, buffer, call, initialAlive, steps>>
    /\ UNCHANGED progVars

\* Variant of the step below that also writes the new state into the buffer
\* being read.
OrderDecideInPlace ==
    /\ pc = "decide"
    /\ LET currentCellState == GetCellState(buffer, <<cellPosX, cellPosY>>)
           newCellState == NewCellState(currentCellState, nAliveNeighbours)
           tempCell == CreateCell(<<cellPosX, cellPosY>>, newCellState)
           k == (Len(tempBuffer) \div nVertices) + 2
       IN  /\ tempBuffer' = tempBuffer \o tempCell
           /\ buffer' = SetCellState(buffer, <<cellPosX, cellPosY>>, newCellState, "wrap")
           /\ IF k <= Len(order)
              THEN /\ cellPosX' = order[k][1]
                   /\ cellPosY' = order[k][2]
                   /\ pc' = "count"
              ELSE /\ UNCHANGED <<cellPosX, cellPosY>>
                   /\ pc' = "swap"
    /\ UNCHANGED <<gridSize, nAliveNeighbours, call, oldBuffer,
                   initialAlive, steps>>
    /\ UNCHANGED progVars

\* The rule and the insertion into tempBuffer, then the next cell of order.
OrderDecide ==
    /\ pc = "decide"
    /\ LET currentCellState == GetCellState(buffer, <<cellPosX, cellPosY>>)
           newCellState == NewCellState(currentCellState, nAliveNeighbours)
           tempCell == CreateCell(<<cellPosX, cellPosY>>, newCellState)
           k == (Len(tempBuffer) \div nVertices) + 2
       IN  /\ tempBuffer' = tempBuffer \o tempCell
           /\ IF k <= Len(order)
              THEN /\ cellPosX' = order[k][1]
                   /\ cellPosY' = order[k][2]
                   /\ pc' = "count"
              ELSE /\ UNCHANGED <<cellPosX, cellPosY>>
                   /\ pc' = "swap"
    /\ UNCHANGED <<gridSize, buffer, nAliveNeighbours, call, oldBuffer,
                   initialAlive, steps>>
    /\ UNCHANGED progVars

----------------------------------------------------------------------------
(* main: GenerateRandomCells, then Render, GameOfLife and
   ProcessKeyboardInput in a loop *)

InitMain ==
    /\ gridSize \in 1..SmallGridSize
    /\ buffer = <<>>
    /\ tempBuffer = <<>>
    /\ cellPosX = 0
    /\ cellPosY = 0
    /\ nAliveNeighbours = 0
    /\ pc = "idle"
    /\ call = NoCall
    /\ oldBuffer = <<>>
    /\ initialAlive = {}
    /\ steps = 0
    /\ mainPc = "generate"
    /\ clock = 0
    /\ randState = 1
    /\ srandCalls = 0
    /\ generated = <<>>
    /\ rendered = <<>>
    /\ order = <<>>

\* One call of GenerateRandomCells, recorded in the history.
Generation(prior, result) ==
    [tick |-> steps, second |-> clock, prior |-> prior, grid |-> result.buffer]

\* GenerateRandomCells(cellVertices) before the loop.
MainGenerate ==
    /\ mainPc = "generate"
    /\ LET result == GenerateRandomCells(buffer, clock, randState)
       IN  /\ buffer' = result.buffer
           /\ randState' = result.randState
           /\ generated' = Append(generated, Generation(buffer, result))
    /\ srandCalls' = srandCalls + 1
    /\ mainPc' = "render"
    /\ UNCHANGED <<gridSize, call, initialAlive, clock, rendered, order>>
    /\ UNCHANGED lifeVars

\* Variant of Render after which the loop goes on to the keyboard input.
MainRenderSkipsLife ==
    /\ mainPc = "render"
    /\ pc = "idle"
    /\ steps < MaxSteps
    /\ rendered' = Append(rendered, buffer)
    /\ steps' = steps + 1
    /\ mainPc' = "input"
    /\ UNCHANGED <<gridSize, buffer, call, initialAlive, clock, randState,
                   srandCalls, generated, order, tempBuffer, cellPosX,
                   cellPosY, nAliveNeighbours, pc, oldBuffer>>

\* Render(window, VAO, cellVertices, ...): the buffer is read, the loop
\* goes on while the window stays open.
MainRender ==
    /\ mainPc = "render"
    /\ pc = "idle"
    /\ steps < MaxSteps
    /\ rendered' = Append(rendered, buffer)
    /\ mainPc' = "life"
    /\ UNCHANGED <<gridSize, buffer, call, initialAlive, clock, randState,
                   srandCalls, generated, order>>
    /\ UNCHANGED lifeVars

\* GameOfLife(cellVertices), up to its last statement.
MainGameOfLife ==
    /\ mainPc = "life"
    /\ GameOfLifeBegin \/ GameOfLifeCount \/ GameOfLifeDecide
    /\ UNCHANGED mainPc

\* The last statement of GameOfLife and the return to the loop.
MainGameOfLifeReturn ==
    /\ mainPc = "life"
    /\ GameOfLifeSwap
    /\ mainPc' = "input"

\* ProcessKeyboardInput: RestartGame if the space key is pressed.
ProcessKeyboardInput ==
    /\ mainPc = "input"
    /\ \E pressed \in BOOLEAN :
          IF pressed
          THEN LET result == RestartGame(buffer, clock, randState)
               IN  /\ buffer' = result.buffer
                   /\ randState' = result.randState
                   /\ generated' = Append(generated, Generation(buffer, result))
                   /\ srandCalls' = srandCalls + 1
          ELSE UNCHANGED <<buffer, randState, generated, srandCalls>>
    /\ mainPc' = "render"
    /\ UNCHANGED <<gridSize, call, initialAlive, clock, rendered, order>>
    /\ UNCHANGED lifeVars

\* The clock reaches the next second; it is read by GenerateRandomCells only.
ClockTick ==
    /\ pc = "idle"
    /\ clock < MaxClock
    /\ clock' = clock + 1
    /\ UNCHANGED <<gridSize, buffer, call, initialAlive, mainPc, randState,
                   srandCalls, generated, rendered, order>>
    /\ UNCHANGED lifeVars

----------------------------------------------------------------------------
(* Direct calls of the accessors *)

Positions == (-1..(gridSize + 1)) \X (-1..(gridSize + 1))

CallGetCellState ==
    /\ pc = "idle"
    /\ \E position \in Positions :
          call' = [op |-> "get", position |-> position, state |-> DEAD,
                   ret |-> GetCellState(buffer, position)]
    /\ UNCHANGED <<gridSize, buffer, initialAlive, mainPc>>
    /\ UNCHANGED lifeVars
    /\ UNCHANGED progVars

CallSetCellState ==
    /\ pc = "idle"
    /\ \E position \in Positions, state \in {DEAD, ALIVE}, conv \in Conversions :
          /\ buffer' = SetCellState(buffer, position, state, conv)
          /\ call' = [op |-> "set", position |-> position, state |-> state,
                      ret |-> DEAD]
    /\ UNCHANGED <<gridSize, initialAlive, mainPc>>
    /\ UNCHANGED lifeVars
    /\ UNCHANGED progVars

----------------------------------------------------------------------------
(* Specifications *)

\* GameOfLife called again and again on the starting grid.
Next ==
    \/ GameOfLifeBegin /\ UNCHANGED mainPc
    \/ GameOfLifeCount /\ UNCHANGED mainPc
    \/ GameOfLifeDecide /\ UNCHANGED mainPc
    \/ GameOfLifeSwap /\ UNCHANGED mainPc

Spec == Init /\ [][Next]_vars

NextAccess ==
    \/ CallGetCellState
    \/ CallSetCellState

SpecAccess == InitAccess /\ [][NextAccess]_vars

\* One GameOfLife pass that visits the cells in the order `order`.
NextOrder ==
    \/ OrderBegin /\ UNCHANGED mainPc
    \/ GameOfLifeCount /\ UNCHANGED mainPc
    \/ OrderDecide /\ UNCHANGED mainPc

SpecOrder == InitOrder /\ [][NextOrder]_vars

NextMain ==
    \/ MainGenerate
    \/ MainRender
    \/ MainGameOfLife
    \/ MainGameOfLifeReturn
    \/ ProcessKeyboardInput
    \/ ClockTick

SpecMain == InitMain /\ [][NextMain]_vars

TypeOK ==
    /\ gridSize \in 1..MaxGridSize
    /\ Len(buffer) = gridSize * gridSize * nVertices
    /\ pc \in {"idle", "count", "decide", "swap"}
    /\ nAliveNeighbours \in 0..8
    /\ steps \in 0..MaxSteps

----------------------------------------------------------------------------
(* Claims about the accessors, checked under SpecAccess *)

OutOfBounds(position) ==
    \/ position[1] < 0
    \/ position[2] < 0
    \/ position[1] >= gridSize
    \/ position[2] >= gridSize

\* C1: GetCellState returns DEAD at every coordinate outside
\* [0, gridSize) x [0, gridSize), whatever the grid holds; in particular at
\* (x, gridSize) it does not return the state of cell (x + 1, 0).
C1_OutOfBoundsReadsDead ==
    (call.op = "get" /\ OutOfBounds(call.position)) => call.ret = DEAD

\* C10: SetCellState at a coordinate outside [0, gridSize) x [0, gridSize)
\* leaves the whole buffer unchanged.
C10_OutOfBoundsWriteIsNoOp ==
    [][(call'.op = "set" /\ OutOfBounds(call'.position)) => buffer' = buffer]_vars

----------------------------------------------------------------------------
(* Claims about GameOfLife, checked under Spec *)

InBounds(x, y) ==
    /\ 0 <= x /\ x < gridSize
    /\ 0 <= y /\ y < gridSize

\* The number of ALIVE cells among the in-bounds neighbours of (x, y).
InBoundsAliveNeighbours(buf, x, y) ==
    Cardinality({d \in {-1, 0, 1} \X {-1, 0, 1} :
                    /\ d # <<0, 0>>
                    /\ InBounds(x + d[1], y + d[2])
                    /\ CellAt(buf, x + d[1], y + d[2]) = ALIVE})

\* The next state of a cell by the rule of the game.
RuleOfLife(s, n) ==
    IF (s = ALIVE /\ n \in {2, 3}) \/ (s = DEAD /\ n = 3) THEN ALIVE ELSE DEAD

Scanning == pc \in {"count", "decide", "swap"}

\* The cells GameOfLife has decided so far, in the order of the loops.
DecidedCells ==
    {c \in Coords(gridSize) :
        ((c[1] * gridSize) + c[2]) * nVertices < Len(tempBuffer)}

\* The last cell GameOfLife has decided.
LastDecided ==
    LET k == (Len(tempBuffer) \div nVertices) - 1
    IN  <<k \div gridSize, k % gridSize>>

\* C2: during a GameOfLife call the buffer is only read: it stays the grid
\* the call started from, every cell decided so far was decided from the
\* count and the state of that grid, and the buffer is replaced once, by
\* the gridSize * gridSize decided cells.
C2_ScanReadsOldGrid ==
    /\ Scanning =>
          /\ buffer = oldBuffer
          /\ \A c \in DecidedCells :
                CellAt(tempBuffer, c[1], c[2]) =
                    NewCellState(CellAt(oldBuffer, c[1], c[2]),
                                 CountAliveNeighbours(oldBuffer, c[1], c[2]))
    /\ pc = "swap" => Len(tempBuffer) = gridSize * gridSize * nVertices
    /\ (pc = "idle" /\ steps > 0) =>
          /\ Len(buffer) = gridSize * gridSize * nVertices
          /\ \A c \in Coords(gridSize) :
                CellAt(buffer, c[1], c[2]) =
                    NewCellState(CellAt(oldBuffer, c[1], c[2]),
                                 CountAliveNeighbours(oldBuffer, c[1], c[2]))

\* Witness of C2: a full pass has decided a grid that differs from the
\* buffer, which is still the grid the call started from.
C2_Witness ==
    /\ pc = "swap"
    /\ buffer = oldBuffer
    /\ Len(tempBuffer) = gridSize * gridSize * nVertices
    /\ AliveCells(tempBuffer) # AliveCells(buffer)
    /\ AliveCells(tempBuffer) # {}

\* C3: the neighbour count of every in-bounds cell is the number of ALIVE
\* cells among its in-bounds neighbours; out-of-bounds neighbours count 0.
C3_CountIsInBoundsNeighbours ==
    pc = "decide" =>
        nAliveNeighbours = InBoundsAliveNeighbours(buffer, cellPosX, cellPosY)

\* C4: from the current state s and the count n of a cell, GameOfLife
\* writes ALIVE exactly when (s = ALIVE and n in {2, 3}) or (s = DEAD and
\* n = 3), and DEAD otherwise.
C4_RuleOfLife ==
    [][pc = "decide" =>
          /\ Len(tempBuffer') = Len(tempBuffer) + nVertices
          /\ \A i \in (Len(tempBuffer) + 1)..(Len(tempBuffer) + nVertices) :
                tempBuffer'[i].colour =
                    IF RuleOfLife(CellAt(buffer, cellPosX, cellPosY),
                                  nAliveNeighbours) = ALIVE
                    THEN colourWhite ELSE colourBlack]_vars

\* Witness of C4: a DEAD cell with count 3 has just been written ALIVE.
C4_Witness ==
    /\ pc \in {"count", "swap"}
    /\ Len(tempBuffer) > 0
    /\ nAliveNeighbours = 3
    /\ CellAt(buffer, LastDecided[1], LastDecided[2]) = DEAD
    /\ CellAt(tempBuffer, LastDecided[1], LastDecided[2]) = ALIVE

IsCorner(x, y) ==
    /\ x \in {0, gridSize - 1}
    /\ y \in {0, gridSize - 1}

IsEdge(x, y) ==
    \/ x \in {0, gridSize - 1}
    \/ y \in {0, gridSize - 1}

\* C5: with gridSize >= 3 the count of a corner cell is at most 3 and the
\* count of a non-corner cell on an edge is at most 5.
C5_CornerAndEdgeCounts ==
    (pc = "decide" /\ gridSize >= 3) =>
        /\ IsCorner(cellPosX, cellPosY) => nAliveNeighbours <= 3
        /\ (IsEdge(cellPosX, cellPosY) /\ ~IsCorner(cellPosX, cellPosY)) =>
              nAliveNeighbours <= 5

\* C6: a 2x2 block that touches no edge of an otherwise DEAD grid is
\* unchanged after any number of GameOfLife calls.
C6_BlockIsStill ==
    (initialAlive \in InteriorBlocks(gridSize) /\ pc = "idle") =>
        buffer = FillCells(gridSize, initialAlive)

\* Witness of C6: several calls have run on such a block.
C6_Witness ==
    /\ initialAlive \in InteriorBlocks(gridSize)
    /\ pc = "idle"
    /\ steps >= 2
    /\ AliveCells(buffer) = initialAlive

\* C7: a horizontal 3-cell line whose 3x3 box lies inside the grid is the
\* vertical line through the same centre after one call and the starting
\* grid again after two.
C7_BlinkerOscillates ==
    \A cx \in 1..(gridSize - 2), cy \in 1..(gridSize - 2) :
        (initialAlive = HorizontalLine(cx, cy) /\ pc = "idle") =>
            /\ steps = 1 => buffer = FillCells(gridSize, VerticalLine(cx, cy))
            /\ steps = 2 => buffer = FillCells(gridSize, initialAlive)

\* C8: on a grid of size at least 6, a glider away from the edges is, after
\* exactly 4 calls, the same glider moved one cell along each axis in the
\* direction of its heading, with no other cell ALIVE.
C8_GliderMoves ==
    \A sh \in GliderShapes, o \in Orientations :
        \A ox \in 1..(gridSize - 4), oy \in 1..(gridSize - 4) :
            (/\ gridSize >= 6
             /\ initialAlive = Glider(sh, o, ox, oy)
             /\ pc = "idle"
             /\ steps = 4) =>
                buffer = FillCells(gridSize, Translate(initialAlive, Heading(o)))

\* Witness of C8: a glider away from the edges has moved by its heading
\* after 4 calls.
C8_Witness ==
    \E sh \in GliderShapes, o \in Orientations :
        \E ox \in 1..(gridSize - 4), oy \in 1..(gridSize - 4) :
            /\ gridSize >= 6
            /\ initialAlive = Glider(sh, o, ox, oy)
            /\ pc = "idle"
            /\ steps = 4
            /\ AliveCells(buffer) = Translate(initialAlive, Heading(o))

\* C9: with gridSize = 3 and every cell ALIVE the count of the centre cell
\* is 8 and the centre cell is DEAD after one call.
C9_CentreOfFullGrid ==
    (gridSize = 3 /\ initialAlive = Coords(3)) =>
        /\ (steps = 0 /\ pc = "decide" /\ cellPosX = 1 /\ cellPosY = 1) =>
              nAliveNeighbours = 8
        /\ (steps = 1 /\ pc = "idle") => CellAt(buffer, 1, 1) = DEAD

\* Witness of C9: the first call on the full 3x3 grid has returned.
C9_Witness ==
    /\ gridSize = 3
    /\ initialAlive = Coords(3)
    /\ steps = 1
    /\ pc = "idle"
    /\ CellAt(buffer, 1, 1) = DEAD

\* The grid buf with the state of the in-bounds cell c changed to the other
\* state.
FlipCell(buf, c) ==
    [i \in 1..Len(buf) |->
        IF (i - 1) \div nVertices = (c[1] * gridSize) + c[2]
        THEN [buf[i] EXCEPT !.colour =
                  IF buf[i].colour = colourWhite THEN colourBlack ELSE colourWhite]
        ELSE buf[i]]

IsNear(c, x, y) ==
    /\ c[1] \in (x - 1)..(x + 1)
    /\ c[2] \in (y - 1)..(y + 1)

\* C16: the next state of (x, y) depends only on (x, y) and its in-bounds
\* neighbours: changing any cell further away does not change the state
\* GameOfLife decides for (x, y); with gridSize >= 3 the cells of row y = 0
\* do not affect the cells of row y = gridSize - 1.
C16_NextStateIsLocal ==
    pc = "decide" =>
        \A c \in Coords(gridSize) :
            ~IsNear(c, cellPosX, cellPosY) =>
                NextCellState(FlipCell(buffer, c), cellPosX, cellPosY) =
                    NewCellState(GetCellState(buffer, <<cellPosX, cellPosY>>),
                                 nAliveNeighbours)

\* C18: once every cell is DEAD, a GameOfLife call leaves every cell DEAD.
C18_DeadGridIsFixed ==
    [][(pc = "swap" /\ AliveCells(buffer) = {}) => AliveCells(buffer') = {}]_vars

\* Witness of C18: two calls have returned on the grid that started all
\* DEAD, and it is still all DEAD.
C18_Witness ==
    /\ initialAlive = {}
    /\ gridSize >= 3
    /\ pc = "idle"
    /\ steps >= 2
    /\ AliveCells(oldBuffer) = {}
    /\ AliveCells(buffer) = {}

----------------------------------------------------------------------------
(* Claim about the visiting order, checked under SpecOrder *)

\* The state written for the coordinate c in temp, wherever its cell lies.
DecidedFor(temp, c) ==
    LET i == CHOOSE i \in 1..Len(temp) :
                 i % nVertices = 1 /\ temp[i].position = c
    IN  IF temp[i].colour = colourWhite THEN ALIVE ELSE DEAD

\* C15: whatever the order in which the cells are visited, the state
\* decided for every coordinate is the state the x-outer / y-inner order of
\* the code decides for it.
C15_OrderDoesNotMatter ==
    pc = "swap" =>
        /\ Len(tempBuffer) = gridSize * gridSize * nVertices
        /\ \A c \in Coords(gridSize) :
              /\ \E i \in 1..Len(tempBuffer) :
                    i % nVertices = 1 /\ tempBuffer[i].position = c
              /\ DecidedFor(tempBuffer, c) =
                    CellAt(GameOfLifeResult(oldBuffer), c[1], c[2])

\* Witness of C15: a pass in another order than the code's has decided a
\* grid that differs from the one it read.
C15_Witness ==
    /\ pc = "swap"
    /\ gridSize >= 2
    /\ order # Raster(gridSize)
    /\ AliveCells(GameOfLifeResult(oldBuffer)) # AliveCells(oldBuffer)
    /\ AliveCells(GameOfLifeResult(oldBuffer)) # {}
    /\ \A c \in Coords(gridSize) :
          DecidedFor(tempBuffer, c) =
              CellAt(GameOfLifeResult(oldBuffer), c[1], c[2])

----------------------------------------------------------------------------
(* Claims about the run of main, checked under SpecMain *)

\* C11: in any run the generator is seeded exactly once: the calls of
\* GenerateRandomCells made by RestartGame do not seed it again.
C11_SeededOnce ==
    mainPc # "generate" => srandCalls = 1

\* The state the draw for the cell c leaves the generator in, when it was
\* seeded with the second t.
DrawFor(t, c) ==
    RandAfter(t, (c[1] * gridSize) + c[2] + 1)

\* A step of ProcessKeyboardInput that calls RestartGame.
IsRestart ==
    mainPc = "input" /\ srandCalls' = srandCalls + 1

\* C12: RestartGame replaces the grid in full: whatever the buffer held,
\* after the call it holds gridSize * gridSize cells in raster order whose
\* states are given by the fresh draws alone.
C12_RestartReplacesGrid ==
    [][IsRestart =>
          /\ Len(buffer') = gridSize * gridSize * nVertices
          /\ \A c \in Coords(gridSize) :
                LET first == ((c[1] * gridSize) + c[2]) * nVertices + 1
                IN  /\ buffer'[first].position = c
                    /\ \A i \in first..(first + nVertices - 1) :
                          buffer'[i].colour =
                              IF DrawFor(clock, c) % 2 # 0
                              THEN colourWhite ELSE colourBlack]_vars

\* Witness of C12: two restarts, made in the same second on different
\* grids, have produced the same grid.
C12_Witness ==
    \E i, j \in 2..Len(generated) :
        /\ i < j
        /\ generated[i].second = generated[j].second
        /\ generated[i].prior # generated[j].prior
        /\ Len(generated[i].prior) = Len(generated[j].prior)
        /\ generated[i].grid = generated[j].grid
        /\ generated[j].grid = buffer

\* The call of GenerateRandomCells made at the startup (tick 0) or by the
\* restart of the tick, if any.
GeneratedAt(tick) ==
    {g \in {generated[j] : j \in 1..Len(generated)} : g.tick = tick}

\* C13: every tick runs one complete GameOfLife call and Render reads only
\* whole grids: the k-th grid rendered is the grid GenerateRandomCells
\* produced at the startup or in the restart of the tick before, or else
\* the one-step successor of the grid rendered before it.
C13_RenderedGrids ==
    /\ mainPc \in {"render", "input"} => (pc = "idle" /\ steps = Len(rendered))
    /\ mainPc = "life" => steps + 1 = Len(rendered)
    /\ \A k \in 1..Len(rendered) :
          /\ Len(rendered[k]) = gridSize * gridSize * nVertices
          /\ IF GeneratedAt(k - 1) # {}
             THEN \A g \in GeneratedAt(k - 1) : rendered[k] = g.grid
             ELSE k > 1 /\ rendered[k] = GameOfLifeResult(rendered[k - 1])

\* Witness of C13: a grid has been rendered after a restart and its
\* successor, a different grid, in the tick after.
C13_Witness ==
    \E k \in 3..Len(rendered) :
        /\ GeneratedAt(k - 2) # {}
        /\ GeneratedAt(k - 1) = {}
        /\ rendered[k] = GameOfLifeResult(rendered[k - 1])
        /\ rendered[k] # rendered[k - 1]
        /\ rendered[k - 1] # GameOfLifeResult(rendered[k - 2])

\* C14: between the calls the buffer holds gridSize * gridSize cells of 4
\* vertices, the cell of (x, y) starts at the index (x * gridSize + y) * 4
\* that GetCellState reads for (x, y), and its 4 vertices carry one colour,
\* the ALIVE or the DEAD one.
C14_BufferLayout ==
    (mainPc # "generate" /\ pc = "idle") =>
        /\ Len(buffer) = gridSize * gridSize * nVertices
        /\ \A c \in Coords(gridSize) :
              LET first == ((c[1] * gridSize) + c[2]) * nVertices + 1
              IN  /\ buffer[first].position = c
                  /\ buffer[first].colour \in {colourWhite, colourBlack}
                  /\ \A i \in first..(first + nVertices - 1) :
                        buffer[i].colour = buffer[first].colour
                  /\ (GetCellState(buffer, c) = ALIVE) <=>
                        (buffer[first].colour = colourWhite)

\* Witness of C14: a restart and GameOfLife calls have run, and the buffer
\* holds ALIVE and DEAD cells.
C14_Witness ==
    /\ mainPc = "render"
    /\ gridSize >= 2
    /\ Len(generated) >= 2
    /\ steps > generated[Len(generated)].tick
    /\ AliveCells(buffer) # {}
    /\ AliveCells(buffer) # Coords(gridSize)

\* C17: the grid GenerateRandomCells produces is a function of the second
\* of the call: two calls in the same second produce the same grid.
C17_SameSecondSameGrid ==
    \A i, j \in 1..Len(generated) :
        generated[i].second = generated[j].second =>
            generated[i].grid = generated[j].grid

\* Witness of C17: the startup and a restart in the same second have
\* produced the same grid, a restart in another second a different one.
C17_Witness ==
    \E j, k \in 2..Len(generated) :
        /\ generated[j].second = generated[1].second
        /\ generated[j].grid = generated[1].grid
        /\ generated[k].second # generated[1].second
        /\ generated[k].grid # generated[1].grid

====
